---------------------------- MODULE Spec2Model ----------------------------
(***************************************************************************)
(* Model of streamlog (src/streamlog.hpp): a std::streambuf that installs  *)
(* itself as the buffer of an output stream, accumulates the characters    *)
(* written to it and, on sync, hands the accumulated text to the handler   *)
(* chosen at construction, which calls the console logger and the file     *)
(* logger.  The destructor puts the captured buffer back.                  *)
(*                                                                         *)
(* The streamlog objects are named 1, 2, ..., the streams by their         *)
(* names.  A stream buffer is named by a record [kind, stream, sess]: the  *)
(* buffer a stream had before any streamlog, or a streamlog object.        *)
(***************************************************************************)
EXTENDS Integers, Sequences, FiniteSets, TLC

(* ----------------------------- bounds ---------------------------------- *)

\* the constructions and the characters written (to the streamlog objects
\* and to the original buffers) in one run, taken together
MaxEvents == 4

Sessions == 1..MaxEvents
\* the target streams: two of the streams of the usage example
Streams == {"cout", "cerr"}

(* ------------------------- values of the code -------------------------- *)

\* enum class loglevel { info, debug, error }
loglevel == {"info", "debug", "error"}

\* traits_type::eof()
EOF == -1

\* the int values handed to overflow(int c) by a direct call: eof, and a
\* value above the range of a char that to_char_type narrows to 'a'
InputInts == {EOF, 353}

\* the characters written through a stream (sputc hands overflow the
\* character's to_int_type value)
Chars == {97, 255}

\* to_char_type(c) narrows the int to a char, kept here as its byte value
to_char_type(c) == c % 256

\* the literals "\e[00m", "\e[93m", "\e[91m" as byte strings
ESC_00m == <<27, 91, 48, 48, 109>>
ESC_93m == <<27, 91, 57, 51, 109>>
ESC_91m == <<27, 91, 57, 49, 109>>

\* the names under which the usage example registers its two loggers
LoggerNames == {"console", "logfile"}

NoBuf == [kind |-> "none", stream |-> "", sess |-> 0]
OrigBuf(s) == [kind |-> "orig", stream |-> s, sess |-> 0]
SessBuf(i) == [kind |-> "streamlog", stream |-> "", sess |-> i]

(* ------------------------------ state ---------------------------------- *)

VARIABLES
    registry,   \* the names under which a logger is registered with spdlog
    crashed,    \* the process has ended in a fault: no operation runs
    rdbuf,      \* stream -> the buffer installed in the stream (o.rdbuf())
    origbuf,    \* stream -> characters that reached its original buffer
    levelObj,   \* value of the caller's loglevel object that the
                \* constructors' argument l refers to, "null" before
                \* the caller has set it
    life,       \* session -> "unborn" | "alive" | "destroyed"
    src,        \* session -> member src (the stream), "" without an object
    stream,     \* session -> buffer wrapped by member stream
    srcbuf,     \* session -> member srcbuf
    level,      \* session -> member level: "null", or "levelObj" when it
                \*            refers to the caller's object
    screen,     \* session -> member screen
    logger,     \* session -> member logger
    sbuffer,    \* session -> member sbuffer
    fn,         \* session -> member fn: "empty" or the bound member function
    calls,      \* the logger calls made so far, in order
    captured,   \* history: session -> o.rdbuf() as its constructor found it
    ctorLevel,  \* history: live session -> the value of l as its
                \*          constructor found it
    accepted,   \* history: live session -> the characters appended to
                \*          its sbuffer
    written,    \* history: number of characters written so far
    ret         \* the value returned by the last call of overflow or sync

vars == <<registry, crashed, rdbuf, origbuf, levelObj, life, src, stream, srcbuf, level, screen,
          logger, sbuffer, fn, calls, captured, ctorLevel, accepted, written,
          ret>>

\* the process around the streams and the streamlog objects
process == <<registry, crashed>>

\* spdlog::get(name): the logger registered under the name, named here by
\* that name, or a null pointer
spdlog_get(name) == IF name \in registry THEN name ELSE "null"

\* members of the streamlog objects
members == <<life, src, stream, srcbuf, level, screen, logger, sbuffer, fn>>

\* the state before the first construction, but for the registry
InitObjects ==
    /\ crashed = FALSE
    /\ rdbuf = [s \in Streams |-> OrigBuf(s)]
    /\ origbuf = [s \in Streams |-> <<>>]
    /\ levelObj = "null"
    /\ life = [i \in Sessions |-> "unborn"]
    /\ src = [i \in Sessions |-> ""]
    /\ stream = [i \in Sessions |-> NoBuf]
    /\ srcbuf = [i \in Sessions |-> NoBuf]
    /\ level = [i \in Sessions |-> "null"]
    /\ screen = [i \in Sessions |-> "null"]
    /\ logger = [i \in Sessions |-> "null"]
    /\ sbuffer = [i \in Sessions |-> <<>>]
    /\ fn = [i \in Sessions |-> "empty"]
    /\ calls = <<>>
    /\ captured = [i \in Sessions |-> NoBuf]
    /\ ctorLevel = [i \in Sessions |-> "null"]
    /\ accepted = [i \in Sessions |-> <<>>]
    /\ written = 0
    /\ ret = [called |-> FALSE, val |-> 0]

\* the usage example: both loggers are registered before the first
\* construction
Init ==
    /\ registry = LoggerNames
    /\ InitObjects

\* the constructions and the characters written so far
Events == Cardinality({i \in Sessions : life[i] # "unborn"}) + written

(* --------------------------- the handlers ------------------------------ *)

\* one call of a logger's member function: which logger, which function,
\* the argument, and the streamlog that made the call
Call(snk, f, text, i) == [sink |-> snk, op |-> f, msg |-> text, by |-> i]

\* a bug: the file logger is called first
debug_logger_first(i, msg) ==
    << Call(logger[i], "debug", msg, i),
       Call(screen[i], "debug", ESC_00m \o msg \o ESC_00m, i) >>

\* void debug(const std::string &msg)
debug(i, msg) ==
    << Call(screen[i], "debug", ESC_00m \o msg \o ESC_00m, i),
       Call(logger[i], "debug", msg, i) >>

\* void info(const std::string &msg)
info(i, msg) ==
    << Call(screen[i], "info", ESC_93m \o msg \o ESC_00m, i),
       Call(logger[i], "info", msg, i) >>

\* a bug: error with the markers of info
error_as_info(i, msg) ==
    << Call(screen[i], "error", ESC_93m \o msg \o ESC_00m, i),
       Call(logger[i], "error", msg, i) >>

\* void error(const std::string &msg)
error(i, msg) ==
    << Call(screen[i], "error", ESC_91m \o msg \o ESC_00m, i),
       Call(logger[i], "error", msg, i) >>

\* the switch of the constructor: the member function bound into fn
handler_for(l) ==
    CASE l = "debug" -> "debug"
      [] l = "info"  -> "info"
      [] l = "error" -> "error"

\* the value read through the member level
level_value(i) == IF level[i] = "levelObj" THEN levelObj ELSE "null"

\* a bug: the handler is chosen at each call, from the value read through
\* level
fn_call_by_level(i, msg) ==
    CASE level_value(i) = "debug" -> debug(i, msg)
      [] level_value(i) = "info"  -> info(i, msg)
      [] level_value(i) = "error" -> error(i, msg)

\* the concatenation of the sequences of a sequence
RECURSIVE Concat(_)
Concat(ss) == IF ss = <<>> THEN <<>> ELSE Head(ss) \o Concat(Tail(ss))

\* a bug: sbuffer is one for all objects, so the handler is given what all
\* of them hold
fn_call_shared(i, msg) ==
    CASE fn[i] = "debug" -> debug(i, Concat(sbuffer))
      [] fn[i] = "info"  -> info(i, Concat(sbuffer))
      [] fn[i] = "error" -> error(i, Concat(sbuffer))

\* fn(msg): the call through the std::function
fn_call(i, msg) ==
    CASE fn[i] = "debug" -> debug(i, msg)
      [] fn[i] = "info"  -> info(i, msg)
      [] fn[i] = "error" -> error(i, msg)

(* ---------------------------- constructor ------------------------------ *)


\* explicit streamlog(std::ostream &o, const loglevel &l), with l referring
\* to the caller's object, which holds lv.  Objects are constructed in the
\* order of their names, and the first one on cout: the streams start out
\* alike, so a run that starts on cerr is a run of this model with the two
\* names exchanged.
\* a bug: the stream's first buffer is taken for the one in place
srcbuf_first(o) == OrigBuf(o)

\* the initialiser srcbuf(o.rdbuf()): the buffer in place in the stream
srcbuf_init(o) == rdbuf[o]

\* a bug: the object is not put in the stream
installed_nothing(i, o) == rdbuf[o]

\* the buffer the constructor hands to o.rdbuf(...): this
installed(i, o) == SessBuf(i)

streamlog_ctor(i, o, lv) ==
    /\ ~crashed
    /\ life[i] = "unborn"
    /\ \A j \in Sessions : j < i => life[j] # "unborn"
    /\ i = 1 => o = "cout"
    /\ Events < MaxEvents
    /\ levelObj' = lv
    /\ life' = [life EXCEPT ![i] = "alive"]
    /\ src' = [src EXCEPT ![i] = o]
    /\ srcbuf' = [srcbuf EXCEPT ![i] = srcbuf_init(o)]
    /\ level' = [level EXCEPT ![i] = "levelObj"]
    /\ screen' = [screen EXCEPT ![i] = spdlog_get("console")]
    /\ logger' = [logger EXCEPT ![i] = spdlog_get("logfile")]
    /\ stream' = [stream EXCEPT ![i] = rdbuf[o]]
    /\ rdbuf' = [rdbuf EXCEPT ![o] = installed(i, o)]
    /\ fn' = [fn EXCEPT ![i] = handler_for(levelObj')]
    /\ captured' = [captured EXCEPT ![i] = rdbuf[o]]
    /\ ctorLevel' = [ctorLevel EXCEPT ![i] = lv]
    /\ UNCHANGED <<process, origbuf, sbuffer, calls, accepted, written, ret>>

(* ----------------------------- destructor ------------------------------ *)

\* a bug: the stream's first buffer is put back
restored_first(i) == OrigBuf(src[i])

\* a bug: nothing is put back
restored_nothing(i) == rdbuf[src[i]]

\* the buffer ~streamlog() hands to src.rdbuf(...)
restored(i) == srcbuf[i]

\* a bug: the destructor flushes
dtor_flushes(i) == IF sbuffer[i] # <<>> THEN fn_call(i, sbuffer[i]) ELSE <<>>

\* the logger calls ~streamlog() makes: none, sbuffer is dropped
dtor_calls(i) == <<>>

\* ~streamlog(), followed by the destruction of the members.  The objects
\* on one stream are destroyed in reverse order
\* of construction (automatic objects, as in the usage example), so the
\* object destroyed is the one installed in its stream.
streamlog_dtor(i) ==
    /\ ~crashed
    /\ life[i] = "alive"
    /\ rdbuf[src[i]] = SessBuf(i)
    /\ rdbuf' = [rdbuf EXCEPT ![src[i]] = restored(i)]
    /\ calls' = calls \o dtor_calls(i)
    /\ life' = [life EXCEPT ![i] = "destroyed"]
    /\ src' = [src EXCEPT ![i] = ""]
    /\ stream' = [stream EXCEPT ![i] = NoBuf]
    /\ srcbuf' = [srcbuf EXCEPT ![i] = NoBuf]
    /\ level' = [level EXCEPT ![i] = "null"]
    /\ screen' = [screen EXCEPT ![i] = "null"]
    /\ logger' = [logger EXCEPT ![i] = "null"]
    /\ sbuffer' = [sbuffer EXCEPT ![i] = <<>>]
    /\ fn' = [fn EXCEPT ![i] = "empty"]
    /\ ctorLevel' = [ctorLevel EXCEPT ![i] = "null"]
    /\ accepted' = [accepted EXCEPT ![i] = <<>>]
    /\ UNCHANGED <<process, origbuf, levelObj, captured, written, ret>>

(* ------------------------------ overflow ------------------------------- *)

\* a bug: the character is put in front
overflow_buf_front(buf, c) == <<to_char_type(c)>> \o buf

\* sbuffer += s
overflow_buf(buf, c) == Append(buf, to_char_type(c))

\* a bug: the failure value is returned
overflow_ret_eof == EOF

\* return 0
overflow_ret == 0

\* a bug: the character is also written through the member stream
overflow_tees(i, c) ==
    IF stream[i].kind = "orig"
    THEN [origbuf EXCEPT ![stream[i].stream] = Append(@, to_char_type(c))]
    ELSE origbuf

\* the streams' own buffers after overflow: it writes nothing through the
\* member stream
overflow_stream(i, c) == origbuf

\* virtual int overflow(int c)
overflow(i, c) ==
    /\ ~crashed
    /\ life[i] = "alive"
    /\ Events < MaxEvents
    /\ written' = written + 1
    /\ sbuffer' = [sbuffer EXCEPT ![i] = overflow_buf(sbuffer[i], c)]
    /\ accepted' = [accepted EXCEPT ![i] = Append(accepted[i], to_char_type(c))]
    /\ origbuf' = overflow_stream(i, c)
    /\ ret' = [called |-> TRUE, val |-> overflow_ret]
    /\ UNCHANGED <<process, rdbuf, levelObj, life, src, stream,
                   srcbuf, level, screen, logger, fn, calls, captured,
                   ctorLevel>>

(* -------------------------------- sync --------------------------------- *)

\* a bug: the test on the buffer is missing
sync_dispatches_always(buf) == TRUE

\* if (not sbuffer.empty())
sync_dispatches(buf) == buf # <<>>

\* a bug: the buffer is not cleared
sync_keeps(buf) == buf

\* sbuffer.clear()
sync_clear(buf) == <<>>

\* a bug: the handler is chosen again from the member level
sync_fn_reselect(i) == handler_for(level_value(i))

\* fn after sync: sync assigns nothing to fn
sync_fn(i) == fn[i]

\* return 0
sync_ret == 0

\* int sync(void)
sync(i) ==
    /\ ~crashed
    /\ life[i] = "alive"
    /\ IF sync_dispatches(sbuffer[i])
       THEN /\ screen[i] # "null" /\ logger[i] # "null"
            /\ calls' = calls \o fn_call(i, sbuffer[i])
            /\ sbuffer' = [sbuffer EXCEPT ![i] = sync_clear(sbuffer[i])]
       ELSE UNCHANGED <<calls, sbuffer>>
    /\ fn' = [fn EXCEPT ![i] = sync_fn(i)]
    /\ ret' = [called |-> TRUE, val |-> sync_ret]
    /\ UNCHANGED <<process, rdbuf, origbuf, levelObj, life, src, stream,
                   srcbuf, level, screen, logger, captured, ctorLevel,
                   accepted, written>>

\* the calls of a handler that come before its first call through a null
\* pointer
before_null(cs) ==
    IF cs[1].sink = "null" THEN <<>> ELSE SubSeq(cs, 1, 1)

\* sync with text to dispatch when screen or logger is a null pointer: the
\* handler calls a member function through it, which is undefined.  Either
\* the process faults at that call, or the call does nothing and the
\* handler and sync run on.
sync_null(i) ==
    /\ ~crashed
    /\ life[i] = "alive"
    /\ sync_dispatches(sbuffer[i])
    /\ screen[i] = "null" \/ logger[i] = "null"
    /\ \/ /\ crashed' = TRUE
          /\ calls' = calls \o before_null(fn_call(i, sbuffer[i]))
          /\ UNCHANGED <<sbuffer, ret>>
       \/ /\ crashed' = crashed
          /\ calls' = calls \o SelectSeq(fn_call(i, sbuffer[i]),
                                          LAMBDA c : c.sink # "null")
          /\ sbuffer' = [sbuffer EXCEPT ![i] = sync_clear(sbuffer[i])]
          /\ ret' = [called |-> TRUE, val |-> sync_ret]
    /\ UNCHANGED <<registry, rdbuf, origbuf, levelObj, life, src, stream,
                   srcbuf, level, screen, logger, fn, captured, ctorLevel,
                   accepted, written>>

(* ----------------------- the stream and the caller --------------------- *)

\* o.put(ch), o << ch: the stream hands the character to the buffer
\* installed in it.  A streamlog sets no put area, so each character
\* arrives through overflow.
ostream_put(o, ch) ==
    \/ /\ rdbuf[o].kind = "streamlog"
       /\ overflow(rdbuf[o].sess, ch)
    \/ /\ ~crashed
       /\ rdbuf[o].kind = "orig"
       /\ Events < MaxEvents
       /\ written' = written + 1
       /\ origbuf' = [origbuf EXCEPT ![rdbuf[o].stream] = Append(@, ch)]
       /\ UNCHANGED <<process, rdbuf, levelObj, members, calls, captured,
                      ctorLevel, accepted, ret>>

\* o.flush(), o << std::flush: pubsync of the buffer installed in the stream
ostream_flush(o) ==
    \/ /\ rdbuf[o].kind = "streamlog"
       /\ sync(rdbuf[o].sess)
    \/ /\ ~crashed
       /\ rdbuf[o].kind = "orig"
       /\ UNCHANGED vars

\* the object the constructor's l refers to takes another value after a
\* construction: the caller assigns to it, or it was a temporary (as in the
\* usage example) and its storage is reused
level_object_changes(lv) ==
    /\ ~crashed
    /\ levelObj # "null"
    /\ lv # levelObj
    /\ levelObj' = lv
    /\ UNCHANGED <<process, rdbuf, origbuf, members, calls, captured,
                   ctorLevel, accepted, written, ret>>

(* --------------------------- specification ----------------------------- *)

Next ==
    \/ \E i \in Sessions, o \in Streams, lv \in loglevel :
          streamlog_ctor(i, o, lv)
    \/ \E i \in Sessions : streamlog_dtor(i)
    \/ \E i \in Sessions, c \in InputInts : overflow(i, c)
    \/ \E i \in Sessions : sync(i)
    \/ \E o \in Streams, ch \in Chars : ostream_put(o, ch)
    \/ \E o \in Streams : ostream_flush(o)

\* the streamlog objects, the streams and their callers
Spec == Init /\ [][Next]_vars

NextLevel ==
    \/ Next
    \/ \E lv \in loglevel : level_object_changes(lv)

\* the same, with a caller whose loglevel object changes while streamlog
\* objects refer to it
SpecLevel == Init /\ [][NextLevel]_vars

(* ------------------------ notions of the claims ------------------------ *)

Alive(i) == life[i] = "alive"

\* the arguments of the calls in cs that session i made on the logger snk
TextsOf(cs, i, snk) ==
    LET mine == SelectSeq(cs, LAMBDA c : c.by = i /\ c.sink = snk)
    IN [k \in 1..Len(mine) |-> mine[k].msg]

\* the texts session i has handed to the file logger, flush by flush
Dispatched(i) == TextsOf(calls, i, "logfile")

\* the characters session i accepted since its last dispatching flush
SinceFlush(i) ==
    SubSeq(accepted[i], Len(Concat(Dispatched(i))) + 1, Len(accepted[i]))

\* the calls a step adds to the record
NewCalls == SubSeq(calls', Len(calls) + 1, Len(calls'))

\* a step in which session i dispatches: it stays alive and its pending
\* text goes from non-empty to empty
Dispatches(i) ==
    /\ Alive(i) /\ life'[i] = "alive"
    /\ sbuffer[i] # <<>> /\ sbuffer'[i] = <<>>

(* ------------------------------- C1 ------------------------------------ *)

C1_Pending ==
    \A i \in Sessions : Alive(i) => sbuffer[i] = SinceFlush(i)

C1_Flush ==
    \A i \in Sessions : Dispatches(i) =>
        /\ Len(calls') >= Len(calls)
        /\ SubSeq(calls', 1, Len(calls)) = calls
        /\ \A k \in 1..Len(NewCalls) : NewCalls[k].by = i
        /\ TextsOf(NewCalls, i, "logfile") = << SinceFlush(i) >>

\* C1: in every state the pending buffer of a live session is the sequence
\* of the characters it accepted since its construction or its last
\* dispatching flush, in the order of acceptance; and a flush of pending
\* text hands that very sequence to the handler once, as one text, seen
\* here as the file logger's argument.
C1_FlushHandsConcatenation == [](C1_Pending) /\ [][C1_Flush]_vars

\* a session whose pending text is two different characters was flushed
\* and accepted a further character
C1_Witness ==
    \E i \in Sessions :
        /\ Alive(i)
        /\ Len(Dispatched(i)) = 1
        /\ Len(Dispatched(i)[1]) = 2
        /\ Dispatched(i)[1][1] # Dispatched(i)[1][2]
        /\ Len(sbuffer[i]) = 1

(* ------------------------------- C2 ------------------------------------ *)

\* the marker pairs the levels are given
LeadMarker(l) ==
    CASE l = "debug" -> <<27, 91, 48, 48, 109>>
      [] l = "info"  -> <<27, 91, 57, 51, 109>>
      [] l = "error" -> <<27, 91, 57, 49, 109>>

TrailMarker(l) == <<27, 91, 48, 48, 109>>

C2_Flush ==
    \A i \in Sessions : Dispatches(i) =>
        LET l == ctorLevel[i]
            t == sbuffer[i]
        IN calls' = calls \o
              << [sink |-> "console", op |-> l,
                  msg |-> LeadMarker(l) \o t \o TrailMarker(l), by |-> i],
                 [sink |-> "logfile", op |-> l, msg |-> t, by |-> i] >>

\* C2: a flush of non-empty pending text t by a session constructed with
\* level L makes exactly two logger calls: the console logger's function
\* named L with t between L's two markers, then the file logger's function
\* named L with t itself; no function of another level is called.
C2_FlushCallsBothSinks == [][C2_Flush]_vars

\* an info session and an error session have each flushed a text
C2_Witness ==
    /\ Len(calls) = 4
    /\ calls[1].op = "info" /\ calls[2].op = "info"
    /\ calls[3].op = "error" /\ calls[4].op = "error"
    /\ calls[1].by # calls[3].by

(* ------------------------------- C3 ------------------------------------ *)

\* the destructor of b, constructed on top of a, leaves a installed
C3_Destroy ==
    \A a, b \in Sessions :
        (Alive(b) /\ life'[b] = "destroyed" /\ captured[b] = SessBuf(a)) =>
            /\ rdbuf'[src[b]] = SessBuf(a)
            /\ rdbuf'[src[b]] # captured[a]
            /\ life'[a] = "alive"
            /\ src'[a] = src[b]

\* what is written to, or flushed on, a stream in which a is installed
\* goes to a
C3_Routes ==
    \A a \in Sessions, o \in Streams :
        (rdbuf[o] = SessBuf(a)) =>
            /\ Alive(a)
            /\ \A ch \in Chars : ostream_put(o, ch) =>
                  /\ sbuffer'[a] = Append(sbuffer[a], ch)
                  /\ origbuf' = origbuf
            /\ (ostream_flush(o) /\ sbuffer[a] # <<>>) =>
                  /\ Len(NewCalls) = 2
                  /\ \A k \in 1..2 : /\ NewCalls[k].by = a
                                     /\ NewCalls[k].op = ctorLevel[a]
                  /\ NewCalls[2].msg = sbuffer[a]

\* C3: when B was constructed on the stream in which A was installed and B
\* is destroyed, the stream's buffer is A, not the buffer A replaced; what
\* is then written to the stream is appended to A's pending text, and a
\* flush of the stream dispatches it through A's handler.
C3_ChainedDestroyRestoresPredecessor ==
    [][C3_Destroy /\ C3_Routes]_vars

\* session 2 was constructed on top of session 1 and is destroyed; session
\* 1 is installed in cout, has dispatched a text and holds pending text
C3_Witness ==
    /\ life[2] = "destroyed" /\ captured[2] = SessBuf(1)
    /\ Alive(1) /\ rdbuf["cout"] = SessBuf(1)
    /\ Len(Dispatched(1)) = 1
    /\ sbuffer[1] # <<>>

(* ------------------------------- C4 ------------------------------------ *)

C4_Destroy ==
    \A i \in Sessions :
        (Alive(i) /\ life'[i] = "destroyed") => rdbuf'[src[i]] = captured[i]

C4_Kept ==
    \A i \in Sessions :
        (Alive(i) /\ life'[i] = "alive") =>
            /\ srcbuf'[i] = srcbuf[i]
            /\ src'[i] = src[i]
            /\ srcbuf[i] = captured[i]

\* C4: the buffer installed in a session's stream right after the session's
\* destructor is the buffer its constructor found there, whatever was
\* accepted and flushed in between; no step of a live session changes its
\* members srcbuf and src.
C4_DestroyRestoresCaptured == [][C4_Destroy /\ C4_Kept]_vars

\* session 1 was destroyed after two dispatching flushes, and cout has its
\* original buffer again
C4_Witness ==
    /\ life[1] = "destroyed"
    /\ Len(Dispatched(1)) = 2
    /\ rdbuf["cout"] = OrigBuf("cout")

(* ------------------------------- C5 ------------------------------------ *)

C5_Flush ==
    \A i \in Sessions :
        sync(i) =>
            /\ sbuffer'[i] = <<>>
            /\ sbuffer[i] = <<>> =>
                  /\ calls' = calls
                  /\ UNCHANGED <<rdbuf, origbuf, levelObj, members>>

\* C5: a flush of a session whose pending text is empty makes no logger
\* call and changes neither the session nor the streams; every flush leaves
\* the pending text empty, so a second flush right after a flush is such a
\* flush.
C5_EmptyFlushIsNoOp == [][C5_Flush]_vars

\* sync has been called with nothing written and nothing dispatched
C5_Witness ==
    /\ ret.called
    /\ written = 0
    /\ calls = <<>>
    /\ \E i \in Sessions : Alive(i)

(* ------------------------------- C6 ------------------------------------ *)

\* the calls in cs that session i made
CallsBy(cs, i) == SelectSeq(cs, LAMBDA c : c.by = i)

C6_Destroy ==
    \A i \in Sessions :
        (Alive(i) /\ life'[i] = "destroyed") =>
            /\ calls' = calls
            /\ origbuf' = origbuf
            /\ levelObj' = levelObj
            /\ \A o \in Streams \ {src[i]} : rdbuf'[o] = rdbuf[o]
            /\ \A j \in Sessions \ {i} :
                  /\ life'[j] = life[j] /\ sbuffer'[j] = sbuffer[j]
                  /\ fn'[j] = fn[j] /\ srcbuf'[j] = srcbuf[j]

C6_Never ==
    \A i \in Sessions :
        life[i] = "destroyed" =>
            /\ life'[i] = "destroyed"
            /\ CallsBy(calls', i) = CallsBy(calls, i)

\* C6: the destructor makes no logger call, also when the pending text is
\* not empty, and changes nothing outside its object but the buffer of its
\* stream; a destroyed session stays destroyed and no later step adds a
\* call of it, so the text pending at destruction reaches no logger.
C6_DestroyDropsPending == [][C6_Destroy /\ C6_Never]_vars

\* session 1 was destroyed holding one of the two characters written, which
\* no logger received; session 2 has dispatched the other one
C6_Witness ==
    /\ life[1] = "destroyed" /\ Alive(2) /\ life[3] = "unborn"
    /\ written = 2
    /\ origbuf = [o \in Streams |-> <<>>]
    /\ sbuffer[2] = <<>>
    /\ Len(calls) = 2
    /\ calls[2].by = 2 /\ Len(calls[2].msg) = 1

(* ------------------------------- C7 ------------------------------------ *)

\* a console argument without its two markers
Unwrapped(m) == SubSeq(m, 6, Len(m) - 5)

C7_Pairs ==
    /\ Len(calls) % 2 = 0
    /\ \A k \in 1..Len(calls) :
          k % 2 = 1 =>
              /\ calls[k].sink = "console"
              /\ calls[k + 1].sink = "logfile"
              /\ calls[k + 1].by = calls[k].by
              /\ calls[k + 1].op = calls[k].op
              /\ calls[k + 1].msg = Unwrapped(calls[k].msg)

C7_Flush ==
    \A i \in Sessions : Dispatches(i) =>
        /\ SubSeq(calls', 1, Len(calls)) = calls
        /\ Len(NewCalls) = 2
        /\ NewCalls[1].sink = "console" /\ NewCalls[1].by = i
        /\ NewCalls[2].sink = "logfile" /\ NewCalls[2].by = i

\* C7: every dispatching flush makes its console call and then its file
\* call, both for the same text, and the record of calls is a sequence of
\* such pairs: no call of another flush comes between the two.
C7_ConsoleBeforePersistent == [](C7_Pairs) /\ [][C7_Flush]_vars

\* a debug session has dispatched twice
C7_Witness ==
    /\ Len(calls) = 4
    /\ calls[1].op = "debug"
    /\ calls[3].by = calls[1].by
    /\ calls[2].msg # calls[4].msg

(* ------------------------------- C8 ------------------------------------ *)

C8_Order ==
    \A i \in Sessions : Alive(i) =>
        /\ Concat(Dispatched(i)) \o sbuffer[i] = accepted[i]
        /\ \A k \in 1..Len(Dispatched(i)) : Dispatched(i)[k] # <<>>

C8_Flush ==
    \A i \in Sessions : sync(i) =>
        /\ accepted'[i] = accepted[i]
        /\ Concat(TextsOf(calls', i, "logfile")) = accepted[i]

\* C8: the texts a live session has dispatched, joined in the order of its
\* flushes and followed by its pending text, are the characters it accepted,
\* in the order of acceptance; right after a flush the dispatched texts
\* alone are all the characters accepted before it, so no character is
\* dispatched twice, left out, or dispatched by a flush that came before it.
C8_DispatchOrder == [](C8_Order) /\ [][C8_Flush]_vars

\* a session has dispatched two different one-character texts in two
\* flushes and holds a third character
C8_Witness ==
    \E i \in Sessions :
        /\ Alive(i)
        /\ Len(Dispatched(i)) = 2
        /\ Dispatched(i)[1] # Dispatched(i)[2]
        /\ Len(sbuffer[i]) = 1

(* ------------------------------- C9 ------------------------------------ *)

C9_Bound ==
    \A i \in Sessions : Alive(i) => fn[i] = ctorLevel[i]

\* a step of overflow, of sync or of the destructor: a character is
\* written, a value is returned, a call is made or an object is destroyed
MemberStep ==
    \/ written' # written
    \/ ret' # ret
    \/ calls' # calls
    \/ \E j \in Sessions : Alive(j) /\ life'[j] = "destroyed"

C9_Kept ==
    \A i \in Sessions :
        (Alive(i) /\ life'[i] = "alive") =>
            /\ fn'[i] = fn[i]
            /\ level'[i] = level[i]
            /\ MemberStep => level_value(i)' = level_value(i)

\* C9: the level of a live session, which is the member function bound in
\* fn, is in every state the level its constructor was given; no step
\* changes fn or the object the member level refers to, and overflow, sync
\* and the destructor leave the value read through level as it is.
C9_LevelImmutable == [](C9_Bound) /\ [][C9_Kept]_vars

\* a session dispatched with the level of its construction while the
\* caller's object holds another level
C9_Witness ==
    \E i \in Sessions :
        /\ Alive(i)
        /\ level_value(i) # ctorLevel[i]
        /\ Len(calls) = 2
        /\ calls[2].by = i /\ calls[2].op = ctorLevel[i]

(* ------------------------------- C10 ----------------------------------- *)

\* the character an int stands for
UnitOf(c) == CASE c = -1 -> 255 [] c = 353 -> 97 [] OTHER -> c

C10_Accept ==
    \A i \in Sessions, c \in InputInts \cup Chars :
        overflow(i, c) =>
            /\ ret'.called /\ ret'.val = 0 /\ ret'.val # EOF
            /\ sbuffer'[i] = sbuffer[i] \o << UnitOf(c) >>
            /\ calls' = calls
            /\ \A j \in Sessions \ {i} : sbuffer'[j] = sbuffer[j]

C10_Total ==
    \A i \in Sessions, c \in InputInts \cup Chars :
        (Alive(i) /\ Events < MaxEvents) => ENABLED overflow(i, c)

\* C10: overflow can be called on every live session with every int, with
\* its pending text empty or not; it returns 0, which is not eof, appends
\* the one character the int stands for to the pending text, and makes no
\* logger call.
C10_AcceptNeverRejects == [](C10_Total) /\ [][C10_Accept]_vars

\* after a dispatching flush a session accepted eof and then a value above
\* the range of a char, and overflow returned 0
C10_Witness ==
    \E i \in Sessions :
        /\ Alive(i)
        /\ Len(Dispatched(i)) = 1
        /\ sbuffer[i] = <<255, 97>>
        /\ ret.called /\ ret.val = 0

(* ------------------------------- C11 ----------------------------------- *)

\* a process in which any of the two loggers may not be registered when the
\* streamlog objects are constructed
InitRegistry ==
    /\ registry \in SUBSET LoggerNames
    /\ InitObjects

NextRegistry ==
    \/ Next
    \/ \E i \in Sessions : sync_null(i)

SpecRegistry == InitRegistry /\ [][NextRegistry]_vars

\* C11: no operation ends in a fault, and every live session has a bound
\* handler, a console logger and a file logger, so that a flush of pending
\* text can make both calls.
C11_OperationsTotal ==
    /\ ~crashed
    /\ \A i \in Sessions : Alive(i) =>
          /\ fn[i] \in {"debug", "info", "error"}
          /\ screen[i] # "null"
          /\ logger[i] # "null"

(* ------------------------------- C12 ----------------------------------- *)

\* session i is constructed in this step
Constructed(i) == life[i] = "unborn" /\ life'[i] = "alive"

\* session i is destroyed in this step
Destroyed(i) == life[i] = "alive" /\ life'[i] = "destroyed"

\* an object goes from unborn to alive, with itself put in its stream, and
\* from alive to destroyed, with its srcbuf put in its stream, and no other
\* way; one object at a time
C12_Lifecycle ==
    /\ \A i \in Sessions : life'[i] # life[i] =>
          \/ /\ Constructed(i)
             /\ rdbuf'[src'[i]] = SessBuf(i)
             /\ rdbuf[src'[i]] # SessBuf(i)
          \/ /\ Destroyed(i)
             /\ rdbuf'[src[i]] = srcbuf[i]
             /\ rdbuf[src[i]] = SessBuf(i)
    /\ Cardinality({i \in Sessions : life'[i] # life[i]}) <= 1

\* the buffer of a stream changes only in the construction or the
\* destruction of an object on that stream
C12_SlotWrites ==
    \A o \in Streams : rdbuf'[o] # rdbuf[o] =>
        \E i \in Sessions : \/ (Constructed(i) /\ src'[i] = o)
                             \/ (Destroyed(i) /\ src[i] = o)

\* a destroyed object stays destroyed, is in no stream, accepts nothing,
\* holds nothing and calls no logger
C12_Terminal ==
    \A i \in Sessions : life[i] = "destroyed" =>
        /\ life'[i] = "destroyed"
        /\ \A o \in Streams : rdbuf[o] # SessBuf(i) /\ rdbuf'[o] # SessBuf(i)
        /\ sbuffer'[i] = <<>> /\ accepted'[i] = <<>>
        /\ fn'[i] = "empty"
        /\ CallsBy(calls', i) = CallsBy(calls, i)

\* C12: a session goes from unborn to alive to destroyed and no further,
\* so it is destroyed at most once; the buffer of its stream is written in
\* its construction (itself) and in its destruction (the buffer it found)
\* and in no other step, overflow and sync included; once destroyed it is
\* installed nowhere, accepts and flushes nothing and calls no logger.
C12_LifecycleAndSlot == [][C12_Lifecycle /\ C12_SlotWrites /\ C12_Terminal]_vars

\* session 1 accepted a character, dispatched it and was destroyed, and a
\* character written to cout afterwards went to cout's own buffer
C12_Witness ==
    /\ life[1] = "destroyed"
    /\ Len(CallsBy(calls, 1)) = 2
    /\ rdbuf["cout"] = OrigBuf("cout")
    /\ origbuf["cout"] # <<>>
(* ------------------------------- C13 ----------------------------------- *)

\* fn is assigned in the construction, from the level handed in, and is
\* gone with the object; no other step assigns it
C13_Selected ==
    \A i \in Sessions : fn'[i] # fn[i] =>
        \/ (Constructed(i) /\ fn'[i] = ctorLevel'[i] /\ fn'[i] \in loglevel)
        \/ (Destroyed(i) /\ fn'[i] = "empty")

\* every call made in a step is the function named by the level its
\* session was constructed with, and a console call carries that level's
\* markers, whatever the caller's object holds by now
C13_Calls ==
    \A k \in 1..Len(NewCalls) :
        LET c == NewCalls[k]
            l == ctorLevel[c.by]
        IN /\ l \in loglevel
           /\ c.op = l
           /\ c.sink = "console" =>
                 /\ Len(c.msg) > 10
                 /\ SubSeq(c.msg, 1, 5) = LeadMarker(l)
                 /\ SubSeq(c.msg, Len(c.msg) - 4, Len(c.msg)) = TrailMarker(l)

\* C13: the handler of a session is chosen once, in its constructor, from
\* the level handed in; every logger call the session makes in any later
\* flush is the function and carries the markers of that level, also when
\* the object the constructor's reference refers to holds another level
\* by then.
C13_HandlerOfConstruction == [][C13_Selected /\ C13_Calls]_vars

\* a session constructed with level error has dispatched twice, each time
\* with error, and the caller's object holds info
C13_Witness ==
    \E i \in Sessions :
        /\ Alive(i) /\ ctorLevel[i] = "error"
        /\ level_value(i) = "info"
        /\ Len(calls) = 4
        /\ \A k \in 1..4 : calls[k].by = i /\ calls[k].op = "error"
(* ------------------------------- C14 ----------------------------------- *)

\* the live sessions on stream o
AliveOn(o) == {i \in Sessions : Alive(i) /\ src[i] = o}

\* the one constructed last of a non-empty set of sessions: sessions are
\* named in the order of their construction
Latest(S) == CHOOSE i \in S : \A j \in S : j <= i

\* C14: with the sessions of a stream destroyed in reverse order of their
\* construction, the buffer of every stream is in every state the live
\* session constructed last on it, or the stream's original buffer when no
\* session on it is alive (none yet, or all destroyed); it is never a
\* destroyed session.
C14_SlotIsLatestAlive ==
    \A o \in Streams :
        /\ rdbuf[o] = IF AliveOn(o) = {} THEN OrigBuf(o)
                                         ELSE SessBuf(Latest(AliveOn(o)))
        /\ \A i \in Sessions : life[i] = "destroyed" => rdbuf[o] # SessBuf(i)

\* three sessions were chained on cout, the third is destroyed and the
\* second is installed, on top of the first
C14_Witness ==
    /\ life[3] = "destroyed" /\ captured[3] = SessBuf(2)
    /\ AliveOn("cout") = {1, 2}
    /\ rdbuf["cout"] = SessBuf(2)

(* ------------------------------- C15 ----------------------------------- *)

\* session i accepts a character or dispatches in this step
Works(i) ==
    /\ Alive(i) /\ life'[i] = "alive"
    /\ accepted'[i] # accepted[i] \/ Dispatches(i)

\* a stream's own buffer receives something only in a step that starts and
\* ends with no session on the stream
C15_OriginalKept ==
    \A o \in Streams : origbuf'[o] # origbuf[o] =>
        /\ rdbuf[o] = OrigBuf(o) /\ rdbuf'[o] = OrigBuf(o)
        /\ \A i \in Sessions : captured[i] = OrigBuf(o) => ~Alive(i)

\* a step of overflow or sync of a session writes to no stream's own
\* buffer and to no other session, the one its member stream wraps
\* included, and leaves the member stream as it is
C15_WorkFrame ==
    \A i \in Sessions : Works(i) =>
        /\ origbuf' = origbuf
        /\ stream' = stream
        /\ stream[i] = captured[i]
        /\ \A j \in Sessions \ {i} :
              sbuffer'[j] = sbuffer[j] /\ accepted'[j] = accepted[j]

\* C15: from the construction of a session to its destruction nothing
\* reaches the buffer it found in its stream: what is written to the
\* stream goes to the installed session, and overflow and sync write
\* neither to a stream's own buffer nor through the member stream, which
\* wraps the buffer found; so that buffer's content is at the destruction
\* what it was at the construction.
C15_CapturedUntouched == [][C15_OriginalKept /\ C15_WorkFrame]_vars

\* a character was written to cout before session 1 was constructed on
\* it; session 1 has since accepted and dispatched another character, and
\* cout's own buffer holds the first one only
C15_Witness ==
    /\ Alive(1) /\ rdbuf["cout"] = SessBuf(1)
    /\ captured[1] = OrigBuf("cout")
    /\ origbuf["cout"] = <<97>>
    /\ Len(calls) = 2
    /\ calls[2].by = 1 /\ calls[2].msg = <<255>>

(* ------------------------------- C16 ----------------------------------- *)

\* live sessions i and j are on different streams
Apart(i, j) == Alive(i) /\ Alive(j) /\ src[i] # src[j]

\* a step of overflow, of sync or of the destructor of session i leaves
\* the sessions on other streams, and the buffers of other streams, as
\* they are
C16_Frame ==
    \A i \in Sessions : (Works(i) \/ Destroyed(i)) =>
        /\ \A j \in Sessions : Apart(i, j) =>
              /\ life'[j] = "alive"
              /\ sbuffer'[j] = sbuffer[j]
              /\ level'[j] = level[j]
              /\ level_value(j)' = level_value(j)
              /\ fn'[j] = fn[j]
              /\ CallsBy(calls', j) = CallsBy(calls, j)
        /\ \A o \in Streams \ {src[i]} : rdbuf'[o] = rdbuf[o]

\* a dispatching flush of session i hands the loggers what i accepted since
\* its last one, and nothing of what another session holds
C16_OwnText ==
    \A i \in Sessions : Dispatches(i) =>
        \A k \in 1..Len(NewCalls) :
            /\ NewCalls[k].by = i
            /\ NewCalls[k].sink = "logfile" => NewCalls[k].msg = SinceFlush(i)
            /\ NewCalls[k].sink = "console" =>
                  Unwrapped(NewCalls[k].msg) = SinceFlush(i)

\* C16: sessions on different streams do not affect one another: overflow,
\* sync and the destructor of one leave the pending text, the level and
\* the handler of the others and the buffers of the other streams
\* unchanged, and a flush dispatches the text its own session accepted
\* and no other, however the operations on the sessions interleave.
C16_StreamsIndependent == [][C16_Frame /\ C16_OwnText]_vars

\* sessions 1 on cout and 2 on cerr each accepted a character; session 1
\* has dispatched its own while session 2 still holds its own
C16_Witness ==
    /\ Apart(1, 2)
    /\ Len(calls) = 2
    /\ calls[2].by = 1 /\ calls[2].msg = <<97>>
    /\ sbuffer[1] = <<>>
    /\ sbuffer[2] = <<255>>

=============================================================================
